---- MODULE Spec2Model ----
(***************************************************************************)
(* Model of SOFA/sofa/utils/backend/modelcard.py: the log parsers, the     *)
(* metric-tag inference, the model-index / metadata construction and the   *)
(* dataset sentence of the model card.                                      *)
(*                                                                         *)
(* Representation of Python values                                         *)
(*   - a str is a sequence of atoms: words without separators, "_" and    *)
(*     " "; "eval_loss" is <<"eval", "_", "loss">>; a str or number the    *)
(*     code never cuts up is one atom: <<"squad">>, <<"0.5">>;             *)
(*   - None is an atom sequence that no str of the inputs equals;          *)
(*   - the field names of the dicts the code builds with literal keys      *)
(*     ("task", "model-index") are TLA+ strings;                           *)
(*   - a dict is the sequence of its <<key, value>> items in insertion     *)
(*     order, keys unique;                                                 *)
(*   - an Optional result is a sequence of length 0 (None) or 1;           *)
(*   - a call returns [exc |-> "none", value |-> v] or, when it raises,    *)
(*     [exc |-> <exception name>, value |-> <<>>].                         *)
(***************************************************************************)
EXTENDS Integers, Sequences, FiniteSets, TLC

VARIABLES pc, fn, arg, ret

vars == <<pc, fn, arg, ret>>

\* ------------------------------------------------------------------ bounds
\* longest log history drawn as an input of parse_log_history
MaxLog == 3

\* most epochs of a Keras history drawn as an input of parse_keras_history
MaxEpochs == 2

\* longest dataset_tags list of a TrainingSummary
MaxTags == 2

\* longest dataset_args list of a TrainingSummary
MaxArgs == 3

\* longest dataset list of a TrainingSummary that is rendered
MaxNames == 3

\* most entries of an eval_results mapping given to the tag inference
MaxMetrics == 2

\* largest per-device batch size of the training arguments
MaxBatch == 2

\* largest world_size of the training arguments
MaxWorld == 2

\* largest gradient_accumulation_steps of the training arguments
MaxAccum == 2

\* most rows of a table given to make_markdown_table
MaxRows == 2

\* most columns of a table given to make_markdown_table
MaxCols == 2

\* ------------------------------------------------------- Python primitives
None == <<"None">>

\* a str or number of one atom
V(x) == <<x>>

Nothing == <<>>

Some(x) == <<x>>

Returned(v) == [exc |-> "none", value |-> v]

Raised(e) == [exc |-> e, value |-> <<>>]

\* the words the inputs are made of: <<lower case, Capitalized, UPPER CASE>>
CaseForms ==
  { <<"loss", "Loss", "LOSS">>, <<"eval", "Eval", "EVAL">>,
    <<"epoch", "Epoch", "EPOCH">>, <<"step", "Step", "STEP">>,
    <<"steps", "Steps", "STEPS">>, <<"runtime", "Runtime", "RUNTIME">>,
    <<"samples", "Samples", "SAMPLES">>, <<"per", "Per", "PER">>,
    <<"second", "Second", "SECOND">>, <<"train", "Train", "TRAIN">>,
    <<"total", "Total", "TOTAL">>, <<"flos", "Flos", "FLOS">>,
    <<"learning", "Learning", "LEARNING">>, <<"rate", "Rate", "RATE">>,
    <<"accuracy", "Accuracy", "ACCURACY">>, <<"f1", "F1", "F1">>,
    <<"bleu", "Bleu", "BLEU">>, <<"rouge", "Rouge", "ROUGE">>,
    <<"rouge1", "Rouge1", "ROUGE1">>, <<"rouge2", "Rouge2", "ROUGE2">>,
    <<"matthews", "Matthews", "MATTHEWS">>,
    <<"correlation", "Correlation", "CORRELATION">>,
    <<"val", "Val", "VAL">>, <<"validation", "Validation", "VALIDATION">>,
    <<"training", "Training", "TRAINING">>, <<"score", "Score", "SCORE">> }

HasForm(w) == \E f \in CaseForms : w \in {f[1], f[2], f[3]}

FormOf(w) == CHOOSE f \in CaseForms : w \in {f[1], f[2], f[3]}

\* str.lower() of one atom; separators and digits have no case
LowerAtom(w) == IF HasForm(w) THEN FormOf(w)[1] ELSE w

\* first atom of str.capitalize(): its first letter upper, the others lower
CapAtom(w) == IF HasForm(w) THEN FormOf(w)[2] ELSE w

\* str.lower()
lower(s) == [i \in 1..Len(s) |-> LowerAtom(s[i])]

\* str.replace(old, new) for one-character old and new
replace(s, old, new) == [i \in 1..Len(s) |-> IF s[i] = old THEN new ELSE s[i]]

\* str.capitalize()
capitalize(s) ==
  [i \in 1..Len(s) |-> IF i = 1 THEN CapAtom(s[i]) ELSE LowerAtom(s[i])]

\* str.split(sep): the parts between the separators, empty parts kept
RECURSIVE SplitFrom(_, _, _, _)
SplitFrom(s, sep, i, cur) ==
  IF i > Len(s) THEN <<cur>>
  ELSE IF s[i] = sep THEN <<cur>> \o SplitFrom(s, sep, i + 1, <<>>)
  ELSE SplitFrom(s, sep, i + 1, Append(cur, s[i]))

split(s, sep) == SplitFrom(s, sep, 1, <<>>)

\* sep.join(parts)
RECURSIVE join(_, _)
join(sep, parts) ==
  IF Len(parts) = 0 THEN <<>>
  ELSE IF Len(parts) = 1 THEN parts[1]
  ELSE parts[1] \o <<sep>> \o join(sep, Tail(parts))

\* str.startswith(prefix)
startswith(s, prefix) ==
  Len(s) >= Len(prefix) /\ SubSeq(s, 1, Len(prefix)) = prefix

\* s[n:]
DropFirst(s, n) == SubSeq(s, n + 1, Len(s))

\* " ".join([part.capitalize() for part in parts])
CapitalizeAll(parts) ==
  join(" ", [i \in 1..Len(parts) |-> capitalize(parts[i])])

\* ------------------------------------------------------------------- dicts
Keys(d) == {d[i][1] : i \in 1..Len(d)}

KeySeq(d) == [i \in 1..Len(d) |-> d[i][1]]

Has(d, k) == k \in Keys(d)

Get(d, k) == d[CHOOSE i \in 1..Len(d) : d[i][1] = k][2]

\* d[k] = v: an existing key keeps its place
Put(d, k, v) ==
  IF Has(d, k)
  THEN [i \in 1..Len(d) |-> IF d[i][1] = k THEN <<k, v>> ELSE d[i]]
  ELSE Append(d, <<k, v>>)

SelectSeqNot(d, k) ==
  LET Keep(item) == item[1] # k IN SelectSeq(d, Keep)

\* d.pop(k, None): the dict without k
Pop(d, k) == SelectSeqNot(d, k)

\* the value d.pop(k, None) returns
PopValue(d, k) == IF Has(d, k) THEN Get(d, k) ELSE None

\* --------------------------------------------------------------- log keys
K_loss == <<"loss">>
K_eval_loss == <<"eval", "_", "loss">>
K_train_runtime == <<"train", "_", "runtime">>
K_total_flos == <<"total", "_", "flos">>
K_epoch == <<"epoch">>
K_step == <<"step">>
K_eval_runtime == <<"eval", "_", "runtime">>
K_eval_samples_per_second ==
  <<"eval", "_", "samples", "_", "per", "_", "second">>
K_eval_steps_per_second ==
  <<"eval", "_", "steps", "_", "per", "_", "second">>
K_eval_accuracy == <<"eval", "_", "accuracy">>
K_train_loss == <<"train", "_", "loss">>
K_learning_rate == <<"learning", "_", "rate">>

N_Training_Loss == <<"Training", " ", "Loss">>
N_Epoch == <<"Epoch">>
N_Step == <<"Step">>
N_Validation_Loss == <<"Validation", " ", "Loss">>

\* ------------------------------------------------------- parse_log_history
\* while idx < len(log_history) and "train_runtime" not in log_history[idx]
RECURSIVE ScanTrainRuntime(_, _)
ScanTrainRuntime(log_history, idx) ==
  IF idx < Len(log_history) /\ ~Has(log_history[idx + 1], K_train_runtime)
  THEN ScanTrainRuntime(log_history, idx + 1)
  ELSE idx

\* while idx >= 0 and "eval_loss" not in log_history[idx]: idx -= 1
RECURSIVE ScanEvalLoss(_, _)
ScanEvalLoss(log_history, idx) ==
  IF idx >= 0 /\ ~Has(log_history[idx + 1], K_eval_loss)
  THEN ScanEvalLoss(log_history, idx - 1)
  ELSE idx

\* the index test that decides whether a final result is returned
FoundEval(idx) == idx > 0

\* variant: the terminating record is visited too
TableRange_Inclusive(idx) == 0..idx

\* the records the table loop visits: range(idx)
TableRange(idx) == 0..(idx - 1)

\* the keys popped from the copy of an evaluation record
PoppedKeys ==
  <<K_total_flos, K_epoch, K_step, K_eval_runtime,
    K_eval_samples_per_second, K_eval_steps_per_second>>

RECURSIVE PopAll(_, _)
PopAll(d, ks) == IF Len(ks) = 0 THEN d ELSE PopAll(Pop(d, ks[1]), Tail(ks))

\* the column a metric key of an evaluation record is written to
ColumnName(k) ==
  IF k = K_eval_loss THEN N_Validation_Loss
  ELSE CapitalizeAll(Tail(split(k, "_")))

\* for k, v in metrics.items(): values[name] = v
RECURSIVE AddColumns(_, _)
AddColumns(values, metrics) ==
  IF Len(metrics) = 0 THEN values
  ELSE AddColumns(Put(values, ColumnName(metrics[1][1]), metrics[1][2]),
                  Tail(metrics))

\* variant: the loss of an evaluation record is not taken up
TrainingLossAfter_SkipEval(training_loss, rec) ==
  IF Has(rec, K_loss) /\ ~Has(rec, K_eval_loss)
  THEN Get(rec, K_loss) ELSE training_loss

\* the training loss in force once record `rec` has been read
TrainingLossAfter(training_loss, rec) ==
  IF Has(rec, K_loss) THEN Get(rec, K_loss) ELSE training_loss

\* the row built for one evaluation record
EvalRow(rec, training_loss) ==
  LET metrics == PopAll(rec, PoppedKeys)
      values == << <<N_Training_Loss, training_loss>>,
                   <<N_Epoch, PopValue(rec, K_epoch)>>,
                   <<N_Step, PopValue(rec, K_step)>> >>
  IN AddColumns(values, metrics)

\* for i in range(idx): ...
RECURSIVE TableLoop(_, _, _, _, _)
TableLoop(log_history, i, idx, training_loss, lines) ==
  IF i \notin TableRange(idx) THEN lines
  ELSE LET rec == log_history[i + 1]
           tl == TrainingLossAfter(training_loss, rec)
       IN TableLoop(log_history, i + 1, idx, tl,
                    IF Has(rec, K_eval_loss)
                    THEN Append(lines, EvalRow(rec, tl))
                    ELSE lines)

ExcludedKeys ==
  { <<"runtime">>, <<"samples", "_", "per", "_", "second">>,
    <<"steps", "_", "per", "_", "second">>, <<"epoch">>, <<"step">> }

EvalPrefix == <<"eval", "_">>

\* variant: the eval_ prefix is kept
StripEval_KeepPrefix(key) == key

\* the name a key of the final record is stored under
StripEval(key) ==
  IF startswith(key, EvalPrefix) THEN DropFirst(key, 2) ELSE key

\* for key, value in log_history[idx].items(): ...
RECURSIVE FinalResults(_, _)
FinalResults(eval_results, items) ==
  IF Len(items) = 0 THEN eval_results
  ELSE LET key == StripEval(items[1][1])
       IN FinalResults(
            IF key \notin ExcludedKeys
            THEN Put(eval_results, CapitalizeAll(split(key, "_")), items[1][2])
            ELSE eval_results,
            Tail(items))

\* the result returned when no record has train_runtime
EvalOnlyResult(rec) == rec

parse_log_history(log_history) ==
  LET idx == ScanTrainRuntime(log_history, 0)
  IN IF idx = Len(log_history)
     THEN LET e == ScanEvalLoss(log_history, idx - 1)
          IN IF FoundEval(e)
             THEN [train_log |-> Nothing, lines |-> Nothing,
                   eval_results |-> Some(EvalOnlyResult(log_history[e + 1]))]
             ELSE [train_log |-> Nothing, lines |-> Nothing,
                   eval_results |-> Nothing]
     ELSE LET lines == TableLoop(log_history, 0, idx, V("No log"), <<>>)
              e == ScanEvalLoss(log_history, Len(log_history) - 1)
          IN IF FoundEval(e)
             THEN [train_log |-> Some(log_history[idx + 1]),
                   lines |-> Some(lines),
                   eval_results |->
                     Some(FinalResults(<<>>, log_history[e + 1]))]
             ELSE [train_log |-> Some(log_history[idx + 1]),
                   lines |-> Some(lines), eval_results |-> Nothing]

\* ----------------------------------------------------- parse_keras_history
K_val_loss == <<"val", "_", "loss">>
K_accuracy == <<"accuracy">>

ValPrefix == <<"val", "_">>

\* a tf.keras History object: per-metric lists and the list of epochs
History(history, epoch) ==
  [kind |-> "History", history |-> history, epoch |-> epoch, logs |-> <<>>]

\* the accumulated logs of the callback: a list of per-epoch dicts
DictList(logs) ==
  [kind |-> "list", history |-> <<>>, epoch |-> <<>>, logs |-> logs]

\* {log_key: [single_dict[log_key] for single_dict in logs] for log_key in logs[0]}
InvertLogs(logs) ==
  [j \in 1..Len(logs[1]) |->
     <<logs[1][j][1], [i \in 1..Len(logs) |-> Get(logs[i], logs[1][j][1])]>>]

\* the exception raised while inverting a list of dicts, "none" if none
InvertRaises(logs) ==
  IF Len(logs) = 0 THEN "IndexError"
  ELSE IF \E i \in 1..Len(logs) : \E k \in Keys(logs[1]) : ~Has(logs[i], k)
  THEN "KeyError"
  ELSE "none"

\* variant: the epoch key is prefixed like a training metric
KerasName_EpochAsMetric(k) ==
  LET renamed == IF startswith(k, ValPrefix)
                 THEN <<"validation", "_">> \o DropFirst(k, 2)
                 ELSE <<"train", "_">> \o k
  IN CapitalizeAll(split(renamed, "_"))

\* the name a key of an epoch is shown under
KerasName(k) ==
  LET renamed == IF startswith(k, ValPrefix)
                 THEN <<"validation", "_">> \o DropFirst(k, 2)
                 ELSE IF k # K_epoch THEN <<"train", "_">> \o k
                 ELSE k
  IN CapitalizeAll(split(renamed, "_"))

\* for k, v in epoch_dict.items(): values[name] = v, for epoch i (0-based)
RECURSIVE KerasRow(_, _, _)
KerasRow(values, logs, i) ==
  IF Len(logs) = 0 THEN values
  ELSE KerasRow(Put(values, KerasName(logs[1][1]), logs[1][2][i + 1]),
                Tail(logs), i)

\* for i in range(len(logs["epoch"])): lines.append(values)
KerasLines(logs) ==
  [i \in 1..Len(Get(logs, K_epoch)) |-> KerasRow(<<>>, logs, i - 1)]

\* the exception raised by the loop over the epochs, "none" if none
KerasLinesRaises(logs) ==
  IF ~Has(logs, K_epoch) THEN "KeyError"
  ELSE IF \E j \in 1..Len(logs) : Len(logs[j][2]) < Len(Get(logs, K_epoch))
  THEN "IndexError"
  ELSE "none"

\* lines[-1]
LastOf(lines) == lines[Len(lines)]

LastRaises(lines) == IF Len(lines) = 0 THEN "IndexError" ELSE "none"

parse_keras_history(logs) ==
  LET inverted == logs.kind = "list"
      e1 == IF inverted THEN InvertRaises(logs.logs) ELSE "none"
      d == IF inverted THEN InvertLogs(logs.logs)
           ELSE Put(logs.history, K_epoch, logs.epoch)
      e2 == KerasLinesRaises(d)
      lines == KerasLines(d)
      e3 == LastRaises(lines)
  IN IF e1 # "none" THEN Raised(e1)
     ELSE IF e2 # "none" THEN Raised(e2)
     ELSE IF e3 # "none" THEN Raised(e3)
     ELSE Returned([logs |-> d, lines |-> lines, eval_results |-> LastOf(lines)])

\* ---------------------------------------------------------- module tables
TASK_TAG_TO_NAME_MAPPING ==
  << <<V("fill-mask"), V("Masked Language Modeling")>>,
     <<V("image-classification"), V("Image Classification")>>,
     <<V("image-segmentation"), V("Image Segmentation")>>,
     <<V("multiple-choice"), V("Multiple Choice")>>,
     <<V("object-detection"), V("Object Detection")>>,
     <<V("question-answering"), V("Question Answering")>>,
     <<V("summarization"), V("Summarization")>>,
     <<V("table-question-answering"), V("Table Question Answering")>>,
     <<V("text-classification"), V("Text Classification")>>,
     <<V("text-generation"), V("Causal Language Modeling")>>,
     <<V("text2text-generation"), V("Sequence-to-sequence Language Modeling")>>,
     <<V("token-classification"), V("Token Classification")>>,
     <<V("translation"), V("Translation")>>,
     <<V("zero-shot-classification"), V("Zero Shot Classification")>> >>

METRIC_TAGS ==
  << <<"accuracy">>, <<"bleu">>, <<"f1">>,
     <<"matthews", "_", "correlation">>, <<"pearsonr">>, <<"precision">>,
     <<"recall">>, <<"rouge">>, <<"sacrebleu">>, <<"spearmanr">> >>

\* x in a_list
InList(x, l) == \E i \in 1..Len(l) : l[i] = x

\* ------------------------------------------------- str | list | None fields
\* t is the Python type, v the string (as a list of one) or the list
NoneV == [t |-> "none", v |-> <<>>]

Str(s) == [t |-> "str", v |-> <<s>>]

List(l) == [t |-> "list", v |-> l]

listify(obj) ==
  IF obj.t = "none" THEN <<>>
  ELSE IF obj.t = "str" THEN <<obj.v[1]>>
  ELSE obj.v

\* variant: a list left empty by the filter is written all the same
insert_values_as_list_KeepEmpty(metadata, name, values) ==
  IF values.t = "none" THEN metadata
  ELSE LET l == IF values.t = "str" THEN <<values.v[1]>> ELSE values.v
           NotNone(v) == v # None
       IN Put(metadata, name, SelectSeq(l, NotNone))

insert_values_as_list(metadata, name, values) ==
  IF values.t = "none" THEN metadata
  ELSE LET l == IF values.t = "str" THEN <<values.v[1]>> ELSE values.v
           NotNone(v) == v # None
           kept == SelectSeq(l, NotNone)
       IN IF Len(kept) = 0 THEN metadata ELSE Put(metadata, name, kept)

\* ------------------------------------- infer_metric_tags_from_eval_results
\* key.lower().replace(" ", "_")
NormalizedName(key) == replace(lower(key), " ", "_")

\* variant: every normalized name is taken for a tag
MetricTagOf_Unchecked(key) == Some(NormalizedName(key))

\* the tag a display name is filed under, <<>> when it is not recognized
MetricTagOf(key) ==
  IF InList(NormalizedName(key), METRIC_TAGS) THEN Some(NormalizedName(key))
  ELSE IF lower(key) = <<"rouge1">> THEN Some(<<"rouge">>)
  ELSE Nothing

\* for key in eval_results.keys(): ...
RECURSIVE InferLoop(_, _)
InferLoop(result, keys) ==
  IF Len(keys) = 0 THEN result
  ELSE LET tag == MetricTagOf(keys[1])
       IN InferLoop(IF tag # Nothing THEN Put(result, tag[1], keys[1])
                    ELSE result,
                    Tail(keys))

infer_metric_tags_from_eval_results(eval_results) ==
  IF eval_results = Nothing THEN <<>>
  ELSE InferLoop(<<>>, KeySeq(eval_results[1]))

\* ------------------------------------------- TrainingSummary.create_model_index
Min(a, b) == IF a < b THEN a ELSE b

\* zip(a, b)
Zip(a, b) == [i \in 1..Min(Len(a), Len(b)) |-> <<a[i], b[i]>>]

\* {k: v for k, v in pairs}
RECURSIVE DictOf(_, _)
DictOf(d, pairs) ==
  IF Len(pairs) = 0 THEN d
  ELSE DictOf(Put(d, pairs[1][1], pairs[1][2]), Tail(pairs))

\* variant: dataset_args is left as short as it came
PadArgs_NoPadding(dataset_args, dataset_tags) == dataset_args

\* dataset_args + [None] * (len(dataset_tags) - len(dataset_args))
PadArgs(dataset_args, dataset_tags) ==
  IF Len(dataset_args) < Len(dataset_tags)
  THEN dataset_args \o [i \in 1..(Len(dataset_tags) - Len(dataset_args)) |-> None]
  ELSE dataset_args

\* {task: NAME[task] for task in _listify(self.tasks) if task in NAME}
TaskMapping(tasks) ==
  LET Known(task) == Has(TASK_TAG_TO_NAME_MAPPING, task)
      known == SelectSeq(listify(tasks), Known)
  IN DictOf(<<>>, [i \in 1..Len(known) |->
                     <<known[i], Get(TASK_TAG_TO_NAME_MAPPING, known[i])>>])

\* [(task_tag, ds_tag) for task_tag in task_mapping for ds_tag in dataset_mapping]
AllPossibilities(task_mapping, dataset_mapping) ==
  LET nd == Len(dataset_mapping)
  IN [k \in 1..(Len(task_mapping) * nd) |->
        <<task_mapping[((k - 1) \div nd) + 1][1],
          dataset_mapping[((k - 1) % nd) + 1][1]>>]

\* the exception raised while one result is built, "none" if none
ResultRaises(self, metric_mapping, dataset_arg_mapping, ds_tag) ==
  IF ds_tag # None /\ ~Has(dataset_arg_mapping, ds_tag) THEN "KeyError"
  ELSE IF Len(metric_mapping) > 0 /\ self.eval_results = Nothing THEN "TypeError"
  ELSE IF /\ Len(metric_mapping) > 0
          /\ \E i \in 1..Len(metric_mapping) :
               ~Has(self.eval_results[1], metric_mapping[i][2])
  THEN "KeyError"
  ELSE "none"

\* the result dict of one pair <<task_tag, ds_tag>>, before the filter; maps
\* holds task_mapping, dataset_mapping and dataset_arg_mapping
BuildResult(self, metric_mapping, maps, pair) ==
  LET task_tag == pair[1]
      ds_tag == pair[2]
      r1 == IF task_tag # None
            THEN << <<"task", [name |-> Get(maps.task, task_tag),
                               type |-> task_tag]>> >>
            ELSE <<>>
      r2 == IF ds_tag # None
            THEN Put(r1, "dataset",
                     IF Get(maps.arg, ds_tag) # None
                     THEN [name |-> Get(maps.dataset, ds_tag),
                           type |-> ds_tag,
                           args |-> Get(maps.arg, ds_tag)]
                     ELSE [name |-> Get(maps.dataset, ds_tag),
                           type |-> ds_tag])
            ELSE r1
  IN IF Len(metric_mapping) > 0
     THEN Put(r2, "metrics",
              [i \in 1..Len(metric_mapping) |->
                 [name |-> metric_mapping[i][2],
                  type |-> metric_mapping[i][1],
                  value |-> Get(self.eval_results[1], metric_mapping[i][2])]])
     ELSE r2

\* variant: a result without metrics passes the filter
IsComplete_NoMetrics(result) == Has(result, "task") /\ Has(result, "dataset")

\* the filter on partial results
IsComplete(result) ==
  Has(result, "task") /\ Has(result, "dataset") /\ Has(result, "metrics")

create_model_index(self, metric_mapping) ==
  LET dataset_names == listify(self.dataset)
      dataset_tags == listify(self.dataset_tags)
      dataset_args == PadArgs(listify(self.dataset_args), dataset_tags)
      dataset_mapping0 == DictOf(<<>>, Zip(dataset_tags, dataset_names))
      dataset_arg_mapping == DictOf(<<>>, Zip(dataset_tags, dataset_args))
      task_mapping0 == TaskMapping(self.tasks)
      task_mapping == IF Len(task_mapping0) = 0 THEN << <<None, None>> >>
                      ELSE task_mapping0
      dataset_mapping == IF Len(dataset_mapping0) = 0 THEN << <<None, None>> >>
                         ELSE dataset_mapping0
      all == AllPossibilities(task_mapping, dataset_mapping)
      raising == {k \in 1..Len(all) :
                    ResultRaises(self, metric_mapping, dataset_arg_mapping,
                                 all[k][2]) # "none"}
      maps == [task |-> task_mapping, dataset |-> dataset_mapping,
               arg |-> dataset_arg_mapping]
      built == [k \in 1..Len(all) |->
                  BuildResult(self, metric_mapping, maps, all[k])]
  IN IF Len(task_mapping0) = 0 /\ Len(dataset_mapping0) = 0
     THEN Returned(<< [name |-> self.model_name, results |-> <<>>] >>)
     ELSE IF raising # {}
     THEN Raised(ResultRaises(self, metric_mapping, dataset_arg_mapping,
                              all[CHOOSE k \in raising :
                                    \A m \in raising : k <= m][2]))
     ELSE Returned(<< [name |-> self.model_name,
                       results |-> SelectSeq(built, IsComplete)] >>)

\* ---------------------------------------------- TrainingSummary.create_metadata
create_metadata(self) ==
  LET metric_mapping == infer_metric_tags_from_eval_results(self.eval_results)
      m1 == insert_values_as_list(<<>>, "language", self.language)
      m2 == insert_values_as_list(m1, "tags", self.tags)
      m3 == insert_values_as_list(m2, "datasets", self.dataset_tags)
      m4 == insert_values_as_list(m3, "metrics", List(KeySeq(metric_mapping)))
      index == create_model_index(self, metric_mapping)
  IN IF index.exc # "none" THEN index
     ELSE Returned(Put(m4, "model-index", index.value))

\* ------------------------------------------------ TrainingSummary.to_model_card
\* yaml.dump(mapping, sort_keys=False), as its top-level lines: one per key in
\* insertion order, and the flow form "{}" of a mapping without keys
YamlDump(metadata) ==
  IF Len(metadata) = 0 THEN <<"{}">> ELSE KeySeq(metadata)

\* the "---" delimited header, <<>> when none is written
MetadataBlock(metadata) ==
  LET text == YamlDump(metadata)
  IN IF Len(text) > 0 THEN <<"---">> \o text \o <<"---">> ELSE <<>>

\* self.dataset[:-1]
AllButLast(l) == SubSeq(l, 1, Len(l) - 1)

\* the pieces of the dataset sentence, in order
DatasetSentence(dataset) ==
  IF dataset.t = "none" THEN <<"an unknown dataset.">>
  ELSE IF dataset.t = "str" THEN <<"the ">> \o dataset.v[1] \o <<" dataset.">>
  ELSE IF Len(dataset.v) = 1
  THEN <<"the ">> \o dataset.v[1] \o <<" dataset.">>
  ELSE join(", ", [i \in 1..Len(AllButLast(dataset.v)) |->
                     <<"the ">> \o AllButLast(dataset.v)[i]])
       \o <<" and the ">> \o LastOf(dataset.v) \o <<" datasets.">>

\* the exception raised while the dataset sentence is written
DatasetSentenceRaises(dataset) ==
  IF dataset.t = "list" /\ Len(dataset.v) # 1 THEN LastRaises(dataset.v)
  ELSE "none"

\* the opening of the card; the sections after the dataset sentence (results,
\* fixed headings, hyperparameters, table, versions) are appended to it
to_model_card(self) ==
  LET metadata == create_metadata(self)
      e == DatasetSentenceRaises(self.dataset)
  IN IF metadata.exc # "none" THEN metadata
     ELSE IF e # "none" THEN Raised(e)
     ELSE Returned(
            [header |-> MetadataBlock(metadata.value),
             comment |-> IF self.source = "trainer" THEN "Trainer" ELSE "Keras",
             title |-> self.model_name,
             trained |-> IF self.finetuned_from = Nothing
                         THEN <<"This model was trained from scratch on ">>
                         ELSE <<"This model is a fine-tuned version of ">>
                              \o self.finetuned_from[1] \o <<" on ">>,
             dataset |-> DatasetSentence(self.dataset)])

\* ------------------------------------- extract_hyperparameters_from_trainer
\* the members of ParallelMode, by their value
NotParallelModes == {"not_parallel", "not_distributed"}

ParallelModes == NotParallelModes \cup {"distributed", "tpu"}

TRAINING_ARGS_KEYS == <<"learning_rate", "train_batch_size", "eval_batch_size", "seed">>

\* {k: getattr(trainer.args, k) for k in _TRAINING_ARGS_KEYS}
BaseHyperparameters(args) ==
  [i \in 1..Len(TRAINING_ARGS_KEYS) |->
     <<TRAINING_ARGS_KEYS[i], args[TRAINING_ARGS_KEYS[i]]>>]

\* hyperparameters[k] = v when cond holds
PutIf(cond, d, k, v) == IF cond THEN Put(d, k, v) ELSE d

total_train_batch_size(args) ==
  args.train_batch_size * args.world_size * args.gradient_accumulation_steps

total_eval_batch_size(args) == args.eval_batch_size * args.world_size

\* variant: the total is written whatever the per-device size
DiffersFrom_Always(total, per_device) == TRUE

\* the test that decides whether a total batch size is written
DiffersFrom(total, per_device) == total # per_device

\* the description of the optimizer
OptimizerText(args) ==
  IF args.adafactor THEN <<"Adafactor">>
  ELSE <<"Adam with betas=(", args.adam_beta1, ",", args.adam_beta2,
         ") and epsilon=", args.adam_epsilon>>

\* the mixed_precision_training entry, <<>> when none is written
MixedPrecision(trainer) ==
  IF trainer.args.fp16 /\ trainer.use_amp THEN Some(<<"Native AMP">>)
  ELSE IF trainer.args.fp16 /\ trainer.use_apex
  THEN Some(<<"Apex, opt level ", trainer.args.fp16_opt_level>>)
  ELSE Nothing

extract_hyperparameters_from_trainer(trainer) ==
  LET args == trainer.args
      h0 == BaseHyperparameters(args)
      h1 == PutIf(args.parallel_mode \notin NotParallelModes, h0,
                  "distributed_type",
                  IF args.parallel_mode = "distributed" THEN "multi-GPU"
                  ELSE args.parallel_mode)
      h2 == PutIf(args.world_size > 1, h1, "num_devices", args.world_size)
      h3 == PutIf(args.gradient_accumulation_steps > 1, h2,
                  "gradient_accumulation_steps",
                  args.gradient_accumulation_steps)
      h4 == PutIf(DiffersFrom(total_train_batch_size(args),
                              Get(h3, "train_batch_size")),
                  h3, "total_train_batch_size", total_train_batch_size(args))
      h5 == PutIf(DiffersFrom(total_eval_batch_size(args),
                              Get(h4, "eval_batch_size")),
                  h4, "total_eval_batch_size", total_eval_batch_size(args))
      h6 == Put(h5, "optimizer", OptimizerText(args))
      h7 == Put(h6, "lr_scheduler_type", args.lr_scheduler_type)
      h8 == PutIf(args.warmup_ratio # 0, h7, "lr_scheduler_warmup_ratio",
                  args.warmup_ratio)
      h9 == PutIf(args.warmup_steps # 0, h8, "lr_scheduler_warmup_steps",
                  args.warmup_steps)
      h10 == IF args.max_steps # -1
             THEN Put(h9, "training_steps", args.max_steps)
             ELSE Put(h9, "num_epochs", args.num_train_epochs)
      h11 == PutIf(MixedPrecision(trainer) # Nothing, h10,
                   "mixed_precision_training", MixedPrecision(trainer))
  IN PutIf(args.label_smoothing_factor # 0, h11, "label_smoothing_factor",
           args.label_smoothing_factor)

\* ------------------------------------------------------ make_markdown_table
\* In this section a str is the sequence of its characters, so that Len is
\* len(); a cell value is [kind |-> its Python type, text |-> str(value)].
Digits == <<"0", "1", "2", "3", "4", "5", "6", "7", "8", "9">>

DigitValue(c) == (CHOOSE i \in 1..10 : Digits[i] = c) - 1

\* int(digits)
RECURSIVE DigitsToNat(_)
DigitsToNat(ds) ==
  IF Len(ds) = 0 THEN 0
  ELSE 10 * DigitsToNat(SubSeq(ds, 1, Len(ds) - 1)) + DigitValue(ds[Len(ds)])

\* str(n), for n >= 0
RECURSIVE NatToDigits(_)
NatToDigits(n) ==
  IF n < 10 THEN <<Digits[n + 1]>>
  ELSE Append(NatToDigits(n \div 10), Digits[(n % 10) + 1])

\* zero-padding on the left up to n characters
RECURSIVE PadZeros(_, _)
PadZeros(ds, n) == IF Len(ds) >= n THEN ds ELSE PadZeros(<<"0">> \o ds, n)

Decimals == 4

\* f"{v:.4f}" of a float written as [-]whole.frac with more than 4 decimals
FixedDecimals(text) ==
  LET negative == text[1] = "-"
      unsigned == IF negative THEN Tail(text) ELSE text
      parts == split(unsigned, ".")
      kept == parts[1] \o SubSeq(parts[2], 1, Decimals)
      up == IF DigitValue(parts[2][Decimals + 1]) >= 5 THEN 1 ELSE 0
      ds == PadZeros(NatToDigits(DigitsToNat(kept) + up), Decimals + 1)
  IN (IF negative THEN <<"-">> ELSE <<>>)
     \o SubSeq(ds, 1, Len(ds) - Decimals) \o <<".">>
     \o SubSeq(ds, Len(ds) - Decimals + 1, Len(ds))

maybe_round(v) ==
  IF /\ v.kind = "float"
     /\ Len(split(v.text, ".")) > 1
     /\ Len(split(v.text, ".")[2]) > Decimals
  THEN FixedDecimals(v.text)
  ELSE v.text

\* " " * n
Spaces(n) == [i \in 1..n |-> " "]

\* "".join(parts)
RECURSIVE Concat(_)
Concat(parts) == IF Len(parts) = 0 THEN <<>> ELSE parts[1] \o Concat(Tail(parts))

\* a line of the table without its final "\n"
regular_table_line(values, col_widths) ==
  Concat([c \in 1..Min(Len(values), Len(col_widths)) |->
            <<"|", " ">> \o values[c]
            \o Spaces(col_widths[c] - Len(values[c]) + 1)])
  \o <<"|">>

second_table_line(col_widths) ==
  Concat([c \in 1..Len(col_widths) |->
            <<"|", ":">> \o [i \in 1..col_widths[c] |-> "-"] \o <<":">>])
  \o <<"|">>

\* variant: the width is taken from the unrounded text
CellWidth_Unrounded(value) == Len(value.text)

\* the width a cell asks for
CellWidth(value) == Len(maybe_round(value))

\* for key, value in line.items(): col_widths[key] = max(...)
RECURSIVE WidenBy(_, _)
WidenBy(col_widths, items) ==
  IF Len(items) = 0 THEN col_widths
  ELSE WidenBy(IF Get(col_widths, items[1][1]) < CellWidth(items[1][2])
               THEN Put(col_widths, items[1][1], CellWidth(items[1][2]))
               ELSE col_widths,
               Tail(items))

\* for line in lines: ...
RECURSIVE ColWidths(_, _)
ColWidths(col_widths, lines) ==
  IF Len(lines) = 0 THEN col_widths
  ELSE ColWidths(WidenBy(col_widths, lines[1]), Tail(lines))

\* the exception raised while the widths are computed
ColWidthsRaises(lines) ==
  IF \E i \in 1..Len(lines) : ~(Keys(lines[i]) \subseteq Keys(lines[1]))
  THEN "KeyError" ELSE "none"

\* the table as its lines, each followed by "\n" in the text; lines is an
\* Optional list of rows
make_markdown_table(lines) ==
  IF lines = Nothing \/ Len(lines[1]) = 0 THEN Returned(<<>>)
  ELSE IF ColWidthsRaises(lines[1]) # "none"
  THEN Raised(ColWidthsRaises(lines[1]))
  ELSE LET rows == lines[1]
           col_widths ==
             ColWidths([c \in 1..Len(rows[1]) |->
                          <<rows[1][c][1], Len(rows[1][c][1])>>], rows)
           widths == [c \in 1..Len(col_widths) |-> col_widths[c][2]]
       IN Returned(
            <<regular_table_line(KeySeq(rows[1]), widths),
              second_table_line(widths)>>
            \o [r \in 1..Len(rows) |->
                  regular_table_line(
                    [c \in 1..Len(rows[r]) |-> maybe_round(rows[r][c][2])],
                    widths)])

\* ------------------------------------------------ from_trainer, from_keras
T_generated_from_trainer == <<"generated", "_", "from", "_", "trainer">>

T_generated_from_keras_callback ==
  <<"generated", "_", "from", "_", "keras", "_", "callback">>

\* x in tags: x is part of the string tags, or an element of the list tags
In(x, tags) ==
  IF tags.t = "str"
  THEN \E i \in 1..Len(tags.v[1]) :
         /\ i + Len(x) - 1 <= Len(tags.v[1])
         /\ SubSeq(tags.v[1], i, i + Len(x) - 1) = x
  ELSE InList(x, tags.v)

\* tags.append(x): a str has no append
AppendTo(tags, x) ==
  IF tags.t = "list" THEN Returned(List(Append(tags.v, x)))
  ELSE Raised("AttributeError")

\* the tags given to the summary by from_trainer
TrainerTags(tags) ==
  IF tags = NoneV THEN Returned(List(<<T_generated_from_trainer>>))
  ELSE IF tags.t = "str" /\ tags.v[1] # T_generated_from_trainer
  THEN Returned(List(<<tags.v[1], T_generated_from_trainer>>))
  ELSE IF ~In(T_generated_from_trainer, tags)
  THEN AppendTo(tags, T_generated_from_trainer)
  ELSE Returned(tags)

\* the tags given to the summary by from_keras
KerasTags(tags) ==
  IF tags = NoneV THEN Returned(List(<<T_generated_from_keras_callback>>))
  ELSE IF tags.t = "str" /\ tags.v[1] # T_generated_from_keras_callback
  THEN Returned(List(<<tags.v[1], T_generated_from_keras_callback>>))
  ELSE IF ~In(T_generated_from_trainer, tags)
  THEN AppendTo(tags, T_generated_from_keras_callback)
  ELSE Returned(tags)

\* a datasets.Dataset is [t |-> "hf", v |-> <<builder_name, config_name>>];
\* the default is taken from it unless its builder reads local files
InfersFrom(one_dataset, dataset_tags, dataset_args) ==
  /\ one_dataset.t = "hf"
  /\ dataset_tags = NoneV \/ dataset_args = NoneV
  /\ one_dataset.v[1] \notin {V("csv"), V("json"), V("pandas"), V("parquet"), V("text")}

DefaultDatasetTags(one_dataset, dataset_tags, dataset_args) ==
  IF InfersFrom(one_dataset, dataset_tags, dataset_args) /\ dataset_tags = NoneV
  THEN List(<<one_dataset.v[1]>>) ELSE dataset_tags

DefaultDatasetArgs(one_dataset, dataset_tags, dataset_args) ==
  IF InfersFrom(one_dataset, dataset_tags, dataset_args) /\ dataset_args = NoneV
  THEN List(<<one_dataset.v[2]>>) ELSE dataset_args

\* config is the model's config: its _name_or_path if it has one, and
\* whether that is a directory
DefaultFinetunedFrom(finetuned_from, config) ==
  IF finetuned_from = Nothing /\ config.name_or_path # Nothing /\ ~config.isdir
  THEN config.name_or_path ELSE finetuned_from

\* task is the last task of TASK_MAPPING that lists the model's class
DefaultTasks(tasks, task) ==
  IF tasks = NoneV /\ task # Nothing THEN Str(task[1]) ELSE tasks

\* the summary that a call c of from_trainer builds
TrainerSummary(c, tags) ==
  LET trainer == c.trainer
      one_dataset == IF trainer.train_dataset # NoneV THEN trainer.train_dataset
                     ELSE trainer.eval_dataset
      dataset_tags == DefaultDatasetTags(one_dataset, c.dataset_tags, c.dataset_args)
      parsed == parse_log_history(trainer.log_history)
  IN [model_name |-> IF c.model_name = Nothing THEN trainer.output_dir_name
                     ELSE c.model_name[1],
      language |-> c.language,
      tags |-> tags,
      finetuned_from |-> DefaultFinetunedFrom(c.finetuned_from, trainer.config),
      tasks |-> DefaultTasks(c.tasks, trainer.task),
      dataset |-> IF c.dataset = NoneV /\ dataset_tags # NoneV THEN dataset_tags
                  ELSE c.dataset,
      dataset_tags |-> dataset_tags,
      dataset_args |-> DefaultDatasetArgs(one_dataset, c.dataset_tags, c.dataset_args),
      eval_results |-> parsed.eval_results,
      eval_lines |-> parsed.lines,
      hyperparameters |-> extract_hyperparameters_from_trainer(trainer),
      source |-> "trainer"]

from_trainer(c) ==
  IF TrainerTags(c.tags).exc # "none" THEN Raised(TrainerTags(c.tags).exc)
  ELSE Returned(TrainerSummary(c, TrainerTags(c.tags).value))

\* the optimizer's configuration, or None
extract_hyperparameters_from_keras(model) ==
  << <<"optimizer", IF model.optimizer # Nothing THEN model.optimizer[1] ELSE None>>,
     <<"training_precision", model.precision>> >>

\* the summary that a call c of from_keras builds; the history is parsed
\* before, and without an exception
KerasSummary(c, tags, parsed) ==
  LET given == c.dataset # NoneV
      dataset_tags == IF given
                      THEN DefaultDatasetTags(c.dataset, c.dataset_tags, c.dataset_args)
                      ELSE c.dataset_tags
  IN [model_name |-> c.model_name,
      language |-> c.language,
      tags |-> tags,
      finetuned_from |-> DefaultFinetunedFrom(c.finetuned_from, c.model.config),
      tasks |-> DefaultTasks(c.tasks, c.model.task),
      dataset |-> IF c.dataset = NoneV /\ dataset_tags # NoneV THEN dataset_tags
                  ELSE c.dataset,
      dataset_tags |-> dataset_tags,
      dataset_args |-> IF given
                       THEN DefaultDatasetArgs(c.dataset, c.dataset_tags, c.dataset_args)
                       ELSE c.dataset_args,
      eval_results |-> parsed.eval_results,
      eval_lines |-> parsed.lines,
      hyperparameters |-> extract_hyperparameters_from_keras(c.model),
      source |-> "keras"]

from_keras(c) ==
  IF KerasTags(c.tags).exc # "none" THEN Raised(KerasTags(c.tags).exc)
  ELSE IF c.keras_history = Nothing
  THEN Returned(KerasSummary(c, KerasTags(c.tags).value,
                             [lines |-> <<>>, eval_results |-> <<>>]))
  ELSE IF parse_keras_history(c.keras_history[1]).exc # "none"
  THEN Raised(parse_keras_history(c.keras_history[1]).exc)
  ELSE Returned(KerasSummary(c, KerasTags(c.tags).value,
                             parse_keras_history(c.keras_history[1]).value))

\* ------------------------------------------------------------------ inputs
\* the log records the histories are made of
LogRecords ==
  { << <<K_loss, V("0.5")>> >>,
    << <<K_loss, V("0.4")>>, <<K_learning_rate, V("0.001")>>,
       <<K_epoch, V("2")>>, <<K_step, V("20")>> >>,
    << <<K_eval_loss, V("0.3")>>, <<K_epoch, V("1")>>, <<K_step, V("10")>> >>,
    << <<K_eval_loss, V("0.2")>>, <<K_eval_accuracy, V("0.9")>>,
       <<K_eval_runtime, V("1.5")>>, <<K_eval_samples_per_second, V("7")>>,
       <<K_eval_steps_per_second, V("2")>>, <<K_epoch, V("2")>>,
       <<K_step, V("20")>> >>,
    << <<K_loss, V("0.6")>>, <<K_eval_loss, V("0.35")>>, <<K_step, V("30")>> >>,
    << <<K_eval_accuracy, V("0.8")>>, <<K_epoch, V("3")>> >>,
    << <<K_train_runtime, V("9")>>, <<K_train_loss, V("0.45")>>,
       <<K_total_flos, V("100")>>, <<K_epoch, V("2")>>, <<K_step, V("20")>> >>,
    << <<K_train_runtime, V("8")>>, <<K_eval_loss, V("0.1")>>,
       <<K_epoch, V("4")>> >> }

SeqsUpTo(S, n) == UNION {[1..m -> S] : m \in 0..n}

LogHistories == SeqsUpTo(LogRecords, MaxLog)

\* the metric keys of a Keras history, in the order the framework logs them
KerasKeyLists == { <<K_loss>>, <<K_loss, K_val_loss>> }

KerasValues == {V("0.1"), V("0.2")}

EpochLabels == <<V("0"), V("1"), V("2"), V("3"), V("4"), V("5")>>

\* the values of every metric at every epoch: one function per history
KerasTables(keys, n) == [(1..Len(keys)) \X (1..n) -> KerasValues]

\* the History object of a run of n epochs
AsHistory(keys, n, t) ==
  History([j \in 1..Len(keys) |-> <<keys[j], [i \in 1..n |-> t[<<j, i>>]]>>],
          [i \in 1..n |-> EpochLabels[i]])

\* the same run as the list of dicts the callback accumulates
AsDictList(keys, n, t) ==
  DictList([i \in 1..n |->
              [j \in 1..(Len(keys) + 1) |->
                 IF j <= Len(keys) THEN <<keys[j], t[<<j, i>>]>>
                 ELSE <<K_epoch, EpochLabels[i]>>]])

\* the list of dicts of a callback that writes the epoch key first
AsDictListEpochFirst(keys, n, t) ==
  DictList([i \in 1..n |->
              [j \in 1..(Len(keys) + 1) |->
                 IF j = 1 THEN <<K_epoch, EpochLabels[i]>>
                 ELSE <<keys[j - 1], t[<<j - 1, i>>]>>]])

\* both shapes of every run of at most MaxEpochs epochs
KerasLogsOf(keys, n) ==
  UNION {{AsHistory(keys, n, t), AsDictList(keys, n, t),
          AsDictListEpochFirst(keys, n, t)} :
           t \in KerasTables(keys, n)}

KerasLogs ==
  UNION {KerasLogsOf(c[1], c[2]) : c \in KerasKeyLists \X (0..MaxEpochs)}

\* a field that is None, one string of S, or a list over S of at most n
StrOrList(S, n) ==
  {NoneV} \cup {Str(x) : x \in S \ {None}} \cup {List(l) : l \in SeqsUpTo(S, n)}

BaseSummary ==
  [model_name |-> V("m"), language |-> NoneV, tags |-> NoneV,
   finetuned_from |-> Nothing, tasks |-> NoneV, dataset |-> NoneV,
   dataset_tags |-> NoneV, dataset_args |-> NoneV, eval_results |-> Nothing,
   source |-> "trainer"]

\* display names of metrics, recognized and not
MetricNames ==
  { <<"Loss">>, <<"Accuracy">>, <<"accuracy">>, <<"F1">>, <<"Rouge1">>,
    <<"ROUGE">>, <<"Rouge2">>, <<"Matthews", " ", "Correlation">>,
    <<"F1", " ", "Score">>, <<"Eval", "_", "accuracy">> }

MetricValues == <<V("0.9"), V("0.8"), V("0.7"), V("0.6")>>

NoRepeat(l) == \A i, j \in 1..Len(l) : l[i] = l[j] => i = j

\* the mappings of at most n display names, None included
EvalResultsUpTo(n) ==
  {Nothing} \cup
  {Some([i \in 1..Len(l) |-> <<l[i], MetricValues[i]>>]) :
     l \in {x \in SeqsUpTo(MetricNames, n) : NoRepeat(x)}}

SummaryEvalResults ==
  { Nothing, Some(<<>>),
    Some(<< << <<"Loss">>, V("0.3")>> >>),
    Some(<< << <<"Loss">>, V("0.3")>>, << <<"Accuracy">>, V("0.9")>>,
            << <<"Rouge1">>, V("0.4")>> >>) }

SummaryTasks ==
  { NoneV, Str(V("text-classification")), Str(V("not-a-task")),
    List(<<V("translation"), V("not-a-task"), V("fill-mask")>>) }

\* the summaries whose model index is built
IndexSummaries ==
  {[BaseSummary EXCEPT !.dataset = c[1], !.dataset_tags = c[2],
                       !.dataset_args = c[3], !.tasks = c[4],
                       !.eval_results = c[5]] :
     c \in {NoneV, Str(V("a")), List(<<V("a")>>), List(<<V("a"), V("b")>>)}
           \X StrOrList({V("squad"), V("glue")}, MaxTags)
           \X StrOrList({None, V("x")}, MaxArgs)
           \X (SummaryTasks \ {Str(V("not-a-task"))})
           \X SummaryEvalResults}

\* the summaries whose metadata is built
MetadataSummaries ==
  {[BaseSummary EXCEPT !.language = c[1], !.tags = c[2],
                       !.dataset_tags = c[3], !.tasks = c[4],
                       !.eval_results = c[5]] :
     c \in {NoneV, Str(V("en")), List(<<>>), List(<<None>>), List(<<V("en"), V("fr")>>)}
           \X {NoneV, Str(V("generated_from_trainer")), List(<<>>)}
           \X {NoneV, Str(V("squad")), List(<<>>), List(<<V("squad"), V("glue")>>)}
           \X SummaryTasks
           \X SummaryEvalResults}

\* the summaries that are rendered
CardSummaries ==
  {[BaseSummary EXCEPT !.dataset = c[1], !.finetuned_from = c[2],
                       !.source = c[3], !.language = c[4],
                       !.eval_results = c[5]] :
     c \in StrOrList({V("a"), V("b")}, MaxNames)
           \X {Nothing, Some(V("bert-base-uncased"))}
           \X {"trainer", "keras"}
           \X {NoneV, Str(V("en"))}
           \X {Nothing, Some(<< << <<"Accuracy">>, V("0.9")>> >>)}}

\* the training arguments; warmup_ratio and label_smoothing_factor in
\* thousandths
BaseArgs ==
  [learning_rate |-> "5e-05", train_batch_size |-> 1, eval_batch_size |-> 1,
   seed |-> 42, parallel_mode |-> "not_parallel", world_size |-> 1,
   gradient_accumulation_steps |-> 1, adafactor |-> FALSE,
   adam_beta1 |-> "0.9", adam_beta2 |-> "0.999", adam_epsilon |-> "1e-08",
   lr_scheduler_type |-> "linear", warmup_ratio |-> 0, warmup_steps |-> 0,
   max_steps |-> -1, num_train_epochs |-> 3, fp16 |-> FALSE,
   fp16_opt_level |-> "O1", label_smoothing_factor |-> 0]

\* world_size and gradient_accumulation_steps are at least 1, as the
\* training arguments keep them; the batch sizes too
TrainerArgs ==
  {[BaseArgs EXCEPT !.train_batch_size = c[1], !.eval_batch_size = c[2],
                    !.world_size = c[3], !.gradient_accumulation_steps = c[4],
                    !.parallel_mode = c[5], !.adafactor = c[6],
                    !.max_steps = c[7], !.warmup_steps = c[8],
                    !.label_smoothing_factor = c[9]] :
     c \in (1..MaxBatch) \X (1..MaxBatch) \X (1..MaxWorld) \X (1..MaxAccum)
           \X ParallelModes \X BOOLEAN \X {-1, 500} \X {0, 100} \X {0, 100}}

Trainers ==
  {[args |-> a, use_amp |-> FALSE, use_apex |-> FALSE] : a \in TrainerArgs}
  \cup {[args |-> [BaseArgs EXCEPT !.fp16 = TRUE, !.warmup_ratio = 100,
                                   !.world_size = 2],
         use_amp |-> c[1], use_apex |-> c[2]] : c \in BOOLEAN \X BOOLEAN}

\* column headers and cell values of the tables, character by character
H_Step == <<"S", "t", "e", "p">>

H_F1 == <<"F", "1">>

H_Validation_Loss ==
  <<"V", "a", "l", "i", "d", "a", "t", "i", "o", "n", " ", "L", "o", "s", "s">>

\* floats that round, one whose rounding adds a digit, a short one, a string
TableCells ==
  { [kind |-> "float", text |-> <<"0", ".", "1", "2", "3", "4", "5", "6", "7", "8", "9">>],
    [kind |-> "float", text |-> <<"9", ".", "9", "9", "9", "9", "6">>],
    [kind |-> "float", text |-> <<"0", ".", "5">>],
    [kind |-> "str", text |-> <<"N", "o", " ", "l", "o", "g">>] }

\* the rows of a table as dicts
AsRows(headers, t) ==
  [r \in 1..Len(t) |-> [c \in 1..Len(headers) |-> <<headers[c], t[r][c]>>]]

\* lines is None, or a list of at most MaxRows uniform-keyed rows of at most
\* MaxCols distinct columns
IsMarkdownTable(lines) ==
  \/ lines = Nothing
  \/ \E headers \in SeqsUpTo({H_Step, H_F1, H_Validation_Loss}, MaxCols) :
       /\ Len(headers) > 0
       /\ NoRepeat(headers)
       /\ \E n \in 0..MaxRows :
            \E t \in [1..n -> [1..Len(headers) -> TableCells]] :
              lines = Some(AsRows(headers, t))

\* the tags a caller gives: None, one string, or a list of at most MaxTags
TagArguments ==
  StrOrList({T_generated_from_trainer, T_generated_from_keras_callback, V("nlp")},
            MaxTags)

\* a model's config: its _name_or_path, and whether that is a directory
ModelConfigs ==
  { [name_or_path |-> Nothing, isdir |-> FALSE],
    [name_or_path |-> Some(V("bert-base-uncased")), isdir |-> FALSE],
    [name_or_path |-> Some(V("out")), isdir |-> TRUE] }

\* c[1] is the training dataset, c[3] the task of the model's class
TrainerCalls ==
  {[trainer |-> [train_dataset |-> c[1],
                 eval_dataset |-> [t |-> "hf", v |-> <<V("glue"), V("mrpc")>>],
                 config |-> c[2], task |-> c[3], output_dir_name |-> V("m"),
                 log_history |-> c[4], args |-> BaseArgs, use_amp |-> FALSE,
                 use_apex |-> FALSE],
    language |-> NoneV, tags |-> c[5], model_name |-> c[6],
    finetuned_from |-> Nothing, tasks |-> NoneV, dataset_tags |-> c[7],
    dataset |-> NoneV, dataset_args |-> NoneV] :
     c \in {NoneV, [t |-> "hf", v |-> <<V("squad"), V("plain_text")>>],
            [t |-> "hf", v |-> <<V("csv"), V("default")>>]}
           \X ModelConfigs \X {Nothing, Some(V("fill-mask"))}
           \X {<<>>, << << <<K_loss, V("0.5")>> >>,
                        << <<K_eval_loss, V("0.3")>>, <<K_step, V("10")>> >> >>}
           \X TagArguments \X {Nothing, Some(V("my-model"))}
           \X {NoneV, List(<<V("glue")>>)}}

\* c[4] is no history, or the History object of 0 or 1 epochs of one loss
KerasCalls ==
  {[model |-> [config |-> c[1], task |-> c[2], optimizer |-> c[3],
               precision |-> V("float32")],
    model_name |-> V("m"), keras_history |-> c[4],
    language |-> NoneV, tags |-> c[5], finetuned_from |-> Nothing,
    tasks |-> NoneV, dataset_tags |-> c[6], dataset |-> c[7],
    dataset_args |-> NoneV] :
     c \in ModelConfigs \X {Nothing, Some(V("fill-mask"))}
           \X {Nothing, Some(V("Adam"))}
           \X {Nothing, Some(AsHistory(<<K_loss>>, 0, <<>>)),
               Some(AsHistory(<<K_loss>>, 1, [x \in {<<1, 1>>} |-> V("0.1")]))}
           \X TagArguments \X {NoneV, List(<<V("glue")>>)}
           \X {NoneV, [t |-> "hf", v |-> <<V("squad"), V("plain_text")>>],
               List(<<V("a")>>)}}

\* ----------------------------------------------------------- specification
\* one call of one function, its argument drawn from the inputs
Init ==
  /\ pc = "call"
  /\ ret = Returned(Nothing)
  /\ \/ fn = "parse_log_history" /\ arg \in LogHistories
     \/ fn = "parse_keras_history" /\ arg \in KerasLogs
     \/ fn = "infer_metric_tags_from_eval_results"
        /\ arg \in EvalResultsUpTo(MaxMetrics)
     \/ fn = "create_model_index" /\ arg \in IndexSummaries
     \/ fn = "create_metadata" /\ arg \in MetadataSummaries
     \/ fn = "to_model_card" /\ arg \in CardSummaries
     \/ fn = "extract_hyperparameters_from_trainer" /\ arg \in Trainers
     \/ fn = "make_markdown_table" /\ IsMarkdownTable(arg)
     \/ fn = "from_trainer" /\ arg \in TrainerCalls
     \/ fn = "from_keras" /\ arg \in KerasCalls

CallParseLogHistory ==
  /\ pc = "call"
  /\ fn = "parse_log_history"
  /\ ret' = Returned(parse_log_history(arg))
  /\ pc' = "done"
  /\ UNCHANGED <<fn, arg>>

CallParseKerasHistory ==
  /\ pc = "call"
  /\ fn = "parse_keras_history"
  /\ ret' = parse_keras_history(arg)
  /\ pc' = "done"
  /\ UNCHANGED <<fn, arg>>

CallInferMetricTags ==
  /\ pc = "call"
  /\ fn = "infer_metric_tags_from_eval_results"
  /\ ret' = Returned(infer_metric_tags_from_eval_results(arg))
  /\ pc' = "done"
  /\ UNCHANGED <<fn, arg>>

\* create_model_index as create_metadata calls it: with the inferred tags
CallCreateModelIndex ==
  /\ pc = "call"
  /\ fn = "create_model_index"
  /\ ret' = create_model_index(
              arg, infer_metric_tags_from_eval_results(arg.eval_results))
  /\ pc' = "done"
  /\ UNCHANGED <<fn, arg>>

CallCreateMetadata ==
  /\ pc = "call"
  /\ fn = "create_metadata"
  /\ ret' = create_metadata(arg)
  /\ pc' = "done"
  /\ UNCHANGED <<fn, arg>>

CallToModelCard ==
  /\ pc = "call"
  /\ fn = "to_model_card"
  /\ ret' = to_model_card(arg)
  /\ pc' = "done"
  /\ UNCHANGED <<fn, arg>>

CallExtractHyperparameters ==
  /\ pc = "call"
  /\ fn = "extract_hyperparameters_from_trainer"
  /\ ret' = Returned(extract_hyperparameters_from_trainer(arg))
  /\ pc' = "done"
  /\ UNCHANGED <<fn, arg>>

CallMakeMarkdownTable ==
  /\ pc = "call"
  /\ fn = "make_markdown_table"
  /\ ret' = make_markdown_table(arg)
  /\ pc' = "done"
  /\ UNCHANGED <<fn, arg>>

CallFromTrainer ==
  /\ pc = "call"
  /\ fn = "from_trainer"
  /\ ret' = from_trainer(arg)
  /\ pc' = "done"
  /\ UNCHANGED <<fn, arg>>

CallFromKeras ==
  /\ pc = "call"
  /\ fn = "from_keras"
  /\ ret' = from_keras(arg)
  /\ pc' = "done"
  /\ UNCHANGED <<fn, arg>>

Next ==
  \/ CallParseLogHistory
  \/ CallParseKerasHistory
  \/ CallInferMetricTags
  \/ CallCreateModelIndex
  \/ CallCreateMetadata
  \/ CallToModelCard
  \/ CallExtractHyperparameters
  \/ CallMakeMarkdownTable
  \/ CallFromTrainer
  \/ CallFromKeras

Spec == Init /\ [][Next]_vars

\* ------------------------------------------------------ claim vocabulary
Done(f) == pc = "done" /\ fn = f

HasEvalLoss(h) == \E i \in 1..Len(h) : Has(h[i], K_eval_loss)

HasTrainRuntime(h) == \E i \in 1..Len(h) : Has(h[i], K_train_runtime)

\* 1-based position of the last record with eval_loss
LastEvalPos(h) ==
  CHOOSE i \in 1..Len(h) :
    /\ Has(h[i], K_eval_loss)
    /\ \A j \in (i + 1)..Len(h) : ~Has(h[j], K_eval_loss)

\* 1-based position of the first record with train_runtime
FirstRuntimePos(h) ==
  CHOOSE i \in 1..Len(h) :
    /\ Has(h[i], K_train_runtime)
    /\ \A j \in 1..(i - 1) : ~Has(h[j], K_train_runtime)

\* the positions in 1..upto of the records with eval_loss, ascending
EvalPositions(h, upto) ==
  LET IsEval(i) == Has(h[i], K_eval_loss)
  IN SelectSeq([i \in 1..upto |-> i], IsEval)

\* every entry of the result carries a value of the record, under the
\* record's key or under that key without its eval_ prefix, humanized
TakenFrom(res, rec) ==
  \A i \in 1..Len(res) :
    \E j \in 1..Len(rec) :
      /\ res[i][2] = rec[j][2]
      /\ res[i][1] \in {rec[j][1], CapitalizeAll(split(StripEval(rec[j][1]), "_"))}

\* no non-metric entry and no raw eval_ key in a final-results mapping
CleanResults(res) ==
  \A i \in 1..Len(res) :
    /\ res[i][1] \notin ExcludedKeys
    /\ ~startswith(res[i][1], EvalPrefix)

\* rows and records agree one to one, in order
RowsMatch(lines, h, positions) ==
  /\ Len(lines) = Len(positions)
  /\ \A k \in 1..Len(lines) :
       /\ Has(lines[k], N_Validation_Loss)
       /\ Get(lines[k], N_Validation_Loss) = Get(h[positions[k]], K_eval_loss)
       /\ Get(lines[k], N_Step) = PopValue(h[positions[k]], K_step)
       /\ Get(lines[k], N_Epoch) = PopValue(h[positions[k]], K_epoch)

R_loss == << <<K_loss, V("0.5")>> >>

R_eval == << <<K_eval_loss, V("0.3")>>, <<K_epoch, V("1")>>, <<K_step, V("10")>> >>

R_train ==
  << <<K_train_runtime, V("9")>>, <<K_train_loss, V("0.45")>>,
     <<K_total_flos, V("100")>>, <<K_epoch, V("2")>>, <<K_step, V("20")>> >>

ExampleRow ==
  << <<N_Training_Loss, V("0.5")>>, <<N_Epoch, V("1")>>, <<N_Step, V("10")>>,
     <<N_Validation_Loss, V("0.3")>> >>

ExampleFinal == << << <<"Loss">>, V("0.3")>> >>

\* ------------------------------------------------------------------ claims
\* C1 (as stated): whenever some record of the history has eval_loss, the
\* final evaluation result is present and taken from the last such record;
\* it is absent only when no record has eval_loss.
C1_FinalFromLastEval ==
  Done("parse_log_history") =>
    LET r == ret.value.eval_results
    IN /\ HasEvalLoss(arg) <=> r # Nothing
       /\ r # Nothing => TakenFrom(r[1], arg[LastEvalPos(arg)])

C3_RowsAtOrBefore ==
  (Done("parse_log_history") /\ HasTrainRuntime(arg)) =>
    /\ ret.value.lines # Nothing
    /\ RowsMatch(ret.value.lines[1], arg,
                 EvalPositions(arg, FirstRuntimePos(arg)))

\* C3 (amended): with a train_runtime record, eval_lines has exactly one row
\* per record with eval_loss strictly before the first train_runtime record,
\* in order, and none for that record or a later one.
C3_RowsStrictlyBefore ==
  (Done("parse_log_history") /\ HasTrainRuntime(arg)) =>
    /\ ret.value.lines # Nothing
    /\ RowsMatch(ret.value.lines[1], arg,
                 EvalPositions(arg, FirstRuntimePos(arg) - 1))

C3_Witness ==
  /\ Done("parse_log_history")
  /\ Len(arg) = 3
  /\ HasTrainRuntime(arg)
  /\ FirstRuntimePos(arg) = 2
  /\ \A i \in 1..3 : Has(arg[i], K_eval_loss)
  /\ Len(ret.value.lines[1]) = 1

KerasEmpty(l) == IF l.kind = "list" THEN Len(l.logs) = 0 ELSE Len(l.epoch) = 0

\* C5 (as stated): for an empty log sequence, or one without a qualifying
\* record, parse_log_history and parse_keras_history both return an empty or
\* absent result and never raise.
C5_EmptyNeverRaises ==
  /\ (Done("parse_log_history") /\ ~HasEvalLoss(arg)) =>
       /\ ret.exc = "none"
       /\ ret.value.eval_results = Nothing
       /\ ret.value.lines \in {Nothing, Some(<<>>)}
  /\ (Done("parse_keras_history") /\ KerasEmpty(arg)) =>
       /\ ret.exc = "none"
       /\ ret.value.lines = <<>>

\* the display names of MetricNames that stand for a tag, with the tag
TagOfName ==
  { << <<"Accuracy">>, <<"accuracy">> >>, << <<"accuracy">>, <<"accuracy">> >>,
    << <<"F1">>, <<"f1">> >>, << <<"Rouge1">>, <<"rouge">> >>,
    << <<"ROUGE">>, <<"rouge">> >>,
    << <<"Matthews", " ", "Correlation">>, <<"matthews", "_", "correlation">> >> }

RecognizedNames == {p[1] : p \in TagOfName}

\* the field holds at least one value that is not None
HasValues(field) == \E i \in 1..Len(listify(field)) : listify(field)[i] # None

HasRecognizedMetric(self) ==
  /\ self.eval_results # Nothing
  /\ Keys(self.eval_results[1]) \cap RecognizedNames # {}

\* a record without language, tags, dataset tags, tasks and recognized metrics
Bare(self) ==
  /\ ~HasValues(self.language) /\ ~HasValues(self.tags)
  /\ ~HasValues(self.dataset_tags) /\ Len(listify(self.tasks)) = 0
  /\ ~HasRecognizedMetric(self)

\* the keys of the list-valued metadata that have something to hold, in order
ListKeysWanted(self) ==
  LET Wanted(k) == \/ k = "language" /\ HasValues(self.language)
                   \/ k = "tags" /\ HasValues(self.tags)
                   \/ k = "datasets" /\ HasValues(self.dataset_tags)
                   \/ k = "metrics" /\ HasRecognizedMetric(self)
  IN SelectSeq(<<"language", "tags", "datasets", "metrics">>, Wanted)

\* the keys present are the non-empty ones of language, tags, datasets,
\* metrics and model-index, in that order
KeysInOrder(self, metadata) ==
  LET keys == KeySeq(metadata)
      lists == ListKeysWanted(self)
  IN /\ \A i \in 1..Len(metadata) : Len(metadata[i][2]) > 0
     /\ \/ keys = lists
        \/ keys = Append(lists, "model-index")

\* C6 (as stated): language, tags, datasets, metrics and model-index are each
\* inserted only if non-empty, in that order; for a bare record the metadata
\* mapping is empty and to_model_card writes no metadata block.
C6_BareRecordHasNoMetadata ==
  /\ Done("create_metadata") =>
       /\ ret.exc = "none"
       /\ KeysInOrder(arg, ret.value)
       /\ Bare(arg) => ret.value = <<>>
  /\ (Done("to_model_card") /\ ret.exc = "none" /\ Bare(arg)) =>
       ret.value.header = <<>>

\* C6 (amended): language, tags, datasets and metrics are each inserted only
\* if non-empty, in that order, and model-index is always inserted last, as a
\* list of one entry; the metadata mapping is therefore never empty (for a
\* bare record it holds model-index alone, with empty results) and
\* to_model_card always writes a metadata block between '---' lines.
C6_ModelIndexAlwaysInserted ==
  /\ Done("create_metadata") =>
       /\ ret.exc = "none"
       /\ KeysInOrder(arg, ret.value)
       /\ KeySeq(ret.value) = Append(ListKeysWanted(arg), "model-index")
       /\ Len(Get(ret.value, "model-index")) = 1
       /\ Bare(arg) => Get(ret.value, "model-index")[1].results = <<>>
  /\ (Done("to_model_card") /\ ret.exc = "none") =>
       /\ Len(ret.value.header) >= 3
       /\ ret.value.header[1] = "---"
       /\ ret.value.header[Len(ret.value.header)] = "---"

C6_Witness ==
  /\ Done("create_metadata")
  /\ Bare(arg)
  /\ arg.language = List(<<None>>)
  /\ KeySeq(ret.value) = <<"model-index">>

\* the tags of the tasks of the record that the module knows
KnownTasks(self) ==
  {listify(self.tasks)[i] : i \in 1..Len(listify(self.tasks))}
    \cap Keys(TASK_TAG_TO_NAME_MAPPING)

\* the dataset tags of the record that are paired with a dataset name
NamedTags(self) ==
  {listify(self.dataset_tags)[i] :
     i \in 1..Min(Len(listify(self.dataset_tags)), Len(listify(self.dataset)))}

\* C7: create_model_index returns one {name, results} entry without raising;
\* every result holds task, dataset and a non-empty metrics list, so results
\* is empty whenever a recognized task, a dataset or the metrics are missing.
C7_OnlyCompleteResults ==
  Done("create_model_index") =>
    /\ ret.exc = "none"
    /\ Len(ret.value) = 1
    /\ DOMAIN ret.value[1] = {"name", "results"}
    /\ ret.value[1].name = arg.model_name
    /\ \A i \in 1..Len(ret.value[1].results) :
         LET r == ret.value[1].results[i]
         IN /\ Keys(r) = {"task", "dataset", "metrics"}
            /\ Len(Get(r, "metrics")) > 0
            /\ Get(r, "task").type \in KnownTasks(arg)
            /\ Get(r, "dataset").type \in NamedTags(arg)
    /\ (KnownTasks(arg) = {} \/ NamedTags(arg) = {} \/ ~HasRecognizedMetric(arg))
         => ret.value[1].results = <<>>
    /\ (KnownTasks(arg) # {} /\ NamedTags(arg) # {} /\ HasRecognizedMetric(arg))
         => Len(ret.value[1].results)
              = Cardinality(KnownTasks(arg)) * Cardinality(NamedTags(arg))

C7_Witness ==
  /\ Done("create_model_index")
  /\ KnownTasks(arg) # {} /\ NamedTags(arg) # {}
  /\ ~HasRecognizedMetric(arg)
  /\ ret.value[1].results = <<>>

\* C8: every key returned by infer_metric_tags_from_eval_results is one of
\* the ten METRIC_TAGS, its value is a display name of the input that stands
\* for that tag (rouge1 standing for rouge), and an input without a
\* recognized name gives an empty mapping.
C8_OnlyRecognizedTags ==
  Done("infer_metric_tags_from_eval_results") =>
    LET names == IF arg = Nothing THEN {} ELSE Keys(arg[1])
    IN /\ \A i \in 1..Len(ret.value) :
            /\ InList(ret.value[i][1], METRIC_TAGS)
            /\ ret.value[i][2] \in names
            /\ <<ret.value[i][2], ret.value[i][1]>> \in TagOfName
       /\ names \cap RecognizedNames = {} => ret.value = <<>>
       /\ \A n \in names \cap RecognizedNames :
            \E i \in 1..Len(ret.value) : <<n, ret.value[i][1]>> \in TagOfName

C8_Witness ==
  /\ Done("infer_metric_tags_from_eval_results")
  /\ arg # Nothing
  /\ Keys(arg[1]) = {<<"Rouge1">>, <<"F1", " ", "Score">>}
  /\ ret.value = << << <<"rouge">>, <<"Rouge1">> >> >>

\* the last position of a tag in dataset_tags
TagPosition(self, tag) ==
  CHOOSE i \in 1..Len(listify(self.dataset_tags)) :
    /\ listify(self.dataset_tags)[i] = tag
    /\ \A j \in (i + 1)..Len(listify(self.dataset_tags)) :
         listify(self.dataset_tags)[j] # tag

\* C9: whatever the lengths of dataset_tags and dataset_args, the lookup of
\* a tag's argument never fails, and every dataset entry carries as args the
\* dataset_args element at its tag's position (the last one if the tag is
\* repeated), and no args when that element is None or missing.
C9_ArgsPairedByPosition ==
  Done("create_model_index") =>
    /\ ret.exc = "none"
    /\ \A i \in 1..Len(ret.value[1].results) :
         LET ds == Get(ret.value[1].results[i], "dataset")
             pos == TagPosition(arg, ds.type)
             args == listify(arg.dataset_args)
         IN IF pos <= Len(args) /\ args[pos] # None
            THEN "args" \in DOMAIN ds /\ ds.args = args[pos]
            ELSE "args" \notin DOMAIN ds

C9_Witness ==
  /\ Done("create_model_index")
  /\ Len(listify(arg.dataset_args)) < Len(listify(arg.dataset_tags))
  /\ \E i, j \in 1..Len(ret.value[1].results) :
       /\ "args" \in DOMAIN Get(ret.value[1].results[i], "dataset")
       /\ "args" \notin DOMAIN Get(ret.value[1].results[j], "dataset")
       /\ TagPosition(arg, Get(ret.value[1].results[j], "dataset").type)
            > Len(listify(arg.dataset_args))

\* the sentence for n >= 2 datasets, piece by piece: "the X" for each of the
\* first n-1 with ", " between them, then " and the Z datasets."
ManyDatasets(l) ==
  LET n == Len(l)
  IN [k \in 1..(3 * n - 1) |->
        IF k = 3 * n - 1 THEN " datasets."
        ELSE IF k = 3 * n - 2 THEN l[n][1]
        ELSE IF k = 3 * n - 3 THEN " and the "
        ELSE IF (k - 1) % 3 = 0 THEN "the "
        ELSE IF (k - 1) % 3 = 1 THEN l[((k - 1) \div 3) + 1][1]
        ELSE ", "]

\* C10 (as stated): the dataset sentence is "an unknown dataset." without a
\* dataset, "the X dataset." for one dataset given as a string or a list of
\* one, and for n >= 2 lists every dataset once in order, ending in
\* " datasets."; writing it never fails for any dataset value of the record.
C10_DatasetSentence ==
  Done("to_model_card") =>
    /\ ret.exc = "none"
    /\ ret.value.dataset =
         IF arg.dataset.t = "none" THEN <<"an unknown dataset.">>
         ELSE IF arg.dataset.t = "str" \/ Len(arg.dataset.v) = 1
         THEN <<"the ", arg.dataset.v[1][1], " dataset.">>
         ELSE ManyDatasets(arg.dataset.v)

\* the same sentences, for the dataset values that can be written
C10_SentenceWhenWritten ==
  (Done("to_model_card") /\ ret.exc = "none") =>
    ret.value.dataset =
      IF arg.dataset.t = "none" THEN <<"an unknown dataset.">>
      ELSE IF arg.dataset.t = "str" \/ Len(arg.dataset.v) = 1
      THEN <<"the ", arg.dataset.v[1][1], " dataset.">>
      ELSE ManyDatasets(arg.dataset.v)

\* C11: in the mapping returned by extract_hyperparameters_from_trainer a
\* total batch size key (total_train_batch_size or total_eval_batch_size)
\* appears only when world_size * gradient_accumulation_steps != 1, and then
\* holds the per-device size times the devices (times the accumulation steps
\* for training).
C11_TotalOnlyWhenScaled ==
  Done("extract_hyperparameters_from_trainer") =>
    LET a == arg.args
        h == ret.value
    IN /\ (Has(h, "total_train_batch_size") \/ Has(h, "total_eval_batch_size"))
            => a.world_size * a.gradient_accumulation_steps # 1
       /\ Has(h, "total_train_batch_size") =>
            Get(h, "total_train_batch_size") =
              a.train_batch_size * a.world_size * a.gradient_accumulation_steps
       /\ Has(h, "total_eval_batch_size") =>
            Get(h, "total_eval_batch_size") = a.eval_batch_size * a.world_size

C11_Witness ==
  /\ Done("extract_hyperparameters_from_trainer")
  /\ arg.args.world_size = 1
  /\ arg.args.gradient_accumulation_steps = 2
  /\ Has(ret.value, "total_train_batch_size")
  /\ ~Has(ret.value, "total_eval_batch_size")

\* the epochs an input of parse_keras_history describes
NumEpochs(l) == IF l.kind = "list" THEN Len(l.logs) ELSE Len(l.epoch)

\* its keys other than the epoch key
KerasMetricKeys(l) ==
  (IF l.kind = "list" THEN Keys(l.logs[1]) ELSE Keys(l.history)) \ {K_epoch}

\* the value of key k at epoch i (1-based), whatever the shape
KerasValueAt(l, k, i) ==
  IF l.kind = "list" THEN Get(l.logs[i], k)
  ELSE IF k = K_epoch THEN l.epoch[i]
  ELSE Get(l.history, k)[i]

\* the display names of the keys of the Keras inputs
KerasDisplayName ==
  { <<K_loss, <<"Train", " ", "Loss">> >>,
    <<K_val_loss, <<"Validation", " ", "Loss">> >>,
    <<K_epoch, <<"Epoch">> >> }

\* the row of epoch i as a mapping: display name and value of every key
ExpectedKerasRow(l, i) ==
  {<<p[2], KerasValueAt(l, p[1], i)>> :
     p \in {q \in KerasDisplayName : q[1] \in KerasMetricKeys(l) \cup {K_epoch}}}

Items(d) == {d[i] : i \in 1..Len(d)}

\* C12: for a History object and for a list of per-epoch dicts describing
\* the same epochs, parse_keras_history returns the same rows: one row per
\* epoch in epoch order, val_ keys shown as "Validation ...", the epoch key
\* as "Epoch" and every other key as "Train ..."; the final evaluation
\* result is the last row.
C12_SameRowsBothShapes ==
  (Done("parse_keras_history") /\ ~KerasEmpty(arg)) =>
    /\ ret.exc = "none"
    /\ Len(ret.value.lines) = NumEpochs(arg)
    /\ \A i \in 1..Len(ret.value.lines) :
         /\ Items(ret.value.lines[i]) = ExpectedKerasRow(arg, i)
         /\ Len(ret.value.lines[i]) = Cardinality(KerasMetricKeys(arg)) + 1
    /\ ret.value.eval_results = ret.value.lines[NumEpochs(arg)]

C12_Witness ==
  /\ Done("parse_keras_history")
  /\ arg.kind = "list"
  /\ Len(arg.logs) = 2
  /\ arg.logs[1][1][1] = K_epoch
  /\ Has(arg.logs[1], K_val_loss)
  /\ Len(ret.value.lines) = 2
  /\ Get(ret.value.eval_results, N_Validation_Loss) = Get(arg.logs[2], K_val_loss)
  /\ Get(arg.logs[1], K_val_loss) # Get(arg.logs[2], K_val_loss)

\* the post-rounding string of each cell value, as Python prints it
RoundedText(v) ==
  CASE v.text = <<"0", ".", "1", "2", "3", "4", "5", "6", "7", "8", "9">>
         -> <<"0", ".", "1", "2", "3", "5">>
    [] v.text = <<"9", ".", "9", "9", "9", "9", "6">>
         -> <<"1", "0", ".", "0", "0", "0", "0">>
    [] OTHER -> v.text

MaxOf(S) == CHOOSE x \in S : \A y \in S : y <= x

\* the width the claim gives column c of the rows
ExpectedWidth(rows, c) ==
  MaxOf({Len(rows[1][c][1])}
        \cup {Len(RoundedText(rows[r][c][2])) : r \in 1..Len(rows)})

\* the text between the c-th and the next "|" of an emitted line
CellOf(line, c) == split(line, "|")[c + 1]

\* a text left-aligned in a column of width w, as the rows show it
Padded(text, w) == <<" ">> \o text \o Spaces(w - Len(text) + 1)

NonEmptyTable(lines) == lines # Nothing /\ Len(lines[1]) > 0

\* C13: for every non-empty sequence of uniform-keyed rows, the table has
\* two lines more than the rows; each column's width (the dashes of the
\* separator row) is the maximum of the header's length and of the lengths
\* of the post-rounding strings of its cells, taken per column; the header
\* and every data cell are shown padded to that width; and the header row,
\* the separator row and every data row have the same total length.
C13_ColumnWidthsAndLineLengths ==
  (Done("make_markdown_table") /\ NonEmptyTable(arg)) =>
    LET rows == arg[1]
        cols == Len(rows[1])
        table == ret.value
    IN /\ ret.exc = "none"
       /\ Len(table) = Len(rows) + 2
       /\ \A i \in 1..Len(table) :
            /\ Len(table[i]) = Len(table[1])
            /\ Len(split(table[i], "|")) = cols + 2
       /\ \A c \in 1..cols :
            LET w == ExpectedWidth(rows, c)
            IN /\ CellOf(table[1], c) = Padded(rows[1][c][1], w)
               /\ CellOf(table[2], c) = <<":">> \o [i \in 1..w |-> "-"] \o <<":">>
               /\ \A r \in 1..Len(rows) :
                    CellOf(table[r + 2], c) = Padded(RoundedText(rows[r][c][2]), w)

\* a two-row, two-column table in which one column is as wide as its header
\* and the other as wide as a cell that was rounded
C13_Witness ==
  /\ Done("make_markdown_table")
  /\ NonEmptyTable(arg)
  /\ ret.exc = "none"
  /\ Len(arg[1]) = 2
  /\ Len(arg[1][1]) = 2
  /\ ExpectedWidth(arg[1], 1) = Len(arg[1][1][1][1])
  /\ ExpectedWidth(arg[1], 2) > Len(arg[1][1][2][1])
  /\ ExpectedWidth(arg[1], 2) = Len(RoundedText(arg[1][2][2][2]))
  /\ RoundedText(arg[1][2][2][2]) # arg[1][2][2][2].text
  /\ Len(ret.value) = 4

\* how many times the produced tags hold x: a tag string left as it was
\* given is one tag
Occurrences(x, tags) ==
  IF tags.t = "list" THEN Cardinality({i \in 1..Len(tags.v) : tags.v[i] = x})
  ELSE IF tags.t = "str" /\ tags.v[1] = x THEN 1 ELSE 0

\* every tag the caller gave is among the produced tags
KeepsTags(given, tags) ==
  given # NoneV => \A i \in 1..Len(given.v) : Occurrences(given.v[i], tags) >= 1

\* the tags arguments the claim lists: absent, one string, or a list that
\* holds the marker at most once
ListedTags(given, marker) == given = NoneV \/ Occurrences(marker, given) <= 1

\* the call is done, on listed tags, and with a history that can be parsed
DoneOnListedTags(f, marker) ==
  /\ Done(f)
  /\ ListedTags(arg.tags, marker)
  /\ f = "from_keras" =>
       arg.keras_history = Nothing \/ ~KerasEmpty(arg.keras_history[1])

MarkerOnce(marker) ==
  /\ ret.exc = "none"
  /\ Occurrences(marker, ret.value.tags) = 1
  /\ KeepsTags(arg.tags, ret.value.tags)

\* C14: for every tags argument (absent, a single string equal to or
\* different from the marker, a list with or without the marker),
\* from_trainer produces tags that hold "generated_from_trainer" exactly
\* once and from_keras produces tags that hold
\* "generated_from_keras_callback" exactly once; both keep every tag of the
\* caller and neither raises.
C14_MarkerExactlyOnce ==
  /\ DoneOnListedTags("from_trainer", T_generated_from_trainer)
       => MarkerOnce(T_generated_from_trainer)
  /\ DoneOnListedTags("from_keras", T_generated_from_keras_callback)
       => MarkerOnce(T_generated_from_keras_callback)

\* the half of C14 about from_trainer, which the code keeps
C14_TrainerMarkerOnce ==
  DoneOnListedTags("from_trainer", T_generated_from_trainer)
    => MarkerOnce(T_generated_from_trainer)

\* from_keras on tags in which "generated_from_trainer" does not occur and
\* which are not the bare string "generated_from_keras_callback" nor a list
\* that holds it: there the test of the wrong marker changes nothing
C14_KerasMarkerOnceElsewhere ==
  ( /\ DoneOnListedTags("from_keras", T_generated_from_keras_callback)
    /\ arg.tags # NoneV =>
         /\ Occurrences(T_generated_from_trainer, arg.tags) = 0
         /\ Occurrences(T_generated_from_keras_callback, arg.tags) = 0 )
    => MarkerOnce(T_generated_from_keras_callback)

====
